---- MODULE Spec2Model ----
(***************************************************************************)
(* Meme generator backend (src/app.py): the filter engine (apply_filter),  *)
(* the text layout engine (draw_caption_on_image and its wrap_text), the   *)
(* suggestion parsing loop of /api/generate-captions and the request       *)
(* handler /api/finalize-meme.                                             *)
(*                                                                         *)
(* A Python str is a sequence of one-character tokens.  "\n" is the line   *)
(* feed, "\t" stands for the whitespace characters other than the space    *)
(* (tab, carriage return, ...), "BULLET" for U+2022.                       *)
(***************************************************************************)
EXTENDS Integers, Sequences, FiniteSets, TLC

VARIABLES
    \* /api/generate-captions
    gpc, ghasImage, gmodel, gtext, parts, gi, captions, hashtags, description, gresp,
    \* apply_filter
    fpc, fimg, fname, files, fasset, fout,
    \* draw_caption_on_image
    cpc, cW, cH, ctext, cpos, installed, font, lines, li, ystart, y, drawn, cout,
    \* /api/finalize-meme
    mpc, mreq, mimg, mcalls, mresp

gvars == <<gpc, ghasImage, gmodel, gtext, parts, gi, captions, hashtags, description, gresp>>
fvars == <<fpc, fimg, fname, files, fasset, fout>>
cvars == <<cpc, cW, cH, ctext, cpos, installed, font, lines, li, ystart, y, drawn, cout>>
mvars == <<mpc, mreq, mimg, mcalls, mresp>>
vars == <<gvars, fvars, cvars, mvars>>

\* Python's None and a raised exception, as values no str is equal to
None == <<"<None>">>
Raised == <<"<raise>">>
NoResponse == [code |-> 0]

-----------------------------------------------------------------------------
(* Python str primitives                                                   *)

Whitespace == {" ", "\t", "\n"}

RECURSIVE lstrip(_, _)
lstrip(s, cs) == IF s # <<>> /\ Head(s) \in cs THEN lstrip(Tail(s), cs) ELSE s

RECURSIVE rstrip(_, _)
rstrip(s, cs) ==
    IF s # <<>> /\ s[Len(s)] \in cs THEN rstrip(SubSeq(s, 1, Len(s) - 1), cs) ELSE s

\* str.strip(chars): both ends
strip(s, cs) == rstrip(lstrip(s, cs), cs)

startswith(s, c) == s # <<>> /\ Head(s) = c

\* str.split(sep) for a one-character sep: never drops empty pieces
RECURSIVE split_sep(_, _, _, _)
split_sep(s, sep, cur, acc) ==
    IF s = <<>> THEN Append(acc, cur)
    ELSE IF Head(s) = sep THEN split_sep(Tail(s), sep, <<>>, Append(acc, cur))
         ELSE split_sep(Tail(s), sep, Append(cur, Head(s)), acc)

split_on(s, sep) == split_sep(s, sep, <<>>, <<>>)

\* str.split(): runs of whitespace separate, no empty pieces
RECURSIVE split_ws(_, _, _)
split_ws(s, cur, acc) ==
    IF s = <<>> THEN (IF cur = <<>> THEN acc ELSE Append(acc, cur))
    ELSE IF Head(s) \in Whitespace
         THEN split_ws(Tail(s), <<>>, IF cur = <<>> THEN acc ELSE Append(acc, cur))
         ELSE split_ws(Tail(s), Append(cur, Head(s)), acc)

split(s) == split_ws(s, <<>>, <<>>)

\* sep.join(xs)
RECURSIVE join(_, _)
join(xs, sep) ==
    IF xs = <<>> THEN <<>>
    ELSE IF Len(xs) = 1 THEN xs[1]
         ELSE xs[1] \o sep \o join(Tail(xs), sep)

UpperOf ==
    [a |-> "A", b |-> "B", c |-> "C", d |-> "D", e |-> "E", f |-> "F", g |-> "G",
     h |-> "H", i |-> "I", j |-> "J", k |-> "K", l |-> "L", m |-> "M", n |-> "N",
     o |-> "O", p |-> "P", q |-> "Q", r |-> "R", s |-> "S", t |-> "T", u |-> "U",
     v |-> "V", w |-> "W", x |-> "X", y |-> "Y", z |-> "Z"]
LowerOf ==
    [A |-> "a", B |-> "b", C |-> "c", D |-> "d", E |-> "e", F |-> "f", G |-> "g",
     H |-> "h", I |-> "i", J |-> "j", K |-> "k", L |-> "l", M |-> "m", N |-> "n",
     O |-> "o", P |-> "p", Q |-> "q", R |-> "r", S |-> "s", T |-> "t", U |-> "u",
     V |-> "v", W |-> "w", X |-> "x", Y |-> "y", Z |-> "z"]

upper(s) == [i \in 1..Len(s) |-> IF s[i] \in DOMAIN UpperOf THEN UpperOf[s[i]] ELSE s[i]]
lower(s) == [i \in 1..Len(s) |-> IF s[i] \in DOMAIN LowerOf THEN LowerOf[s[i]] ELSE s[i]]

-----------------------------------------------------------------------------
(* string literals of the source and of the inputs                         *)

s_grayscale == <<"g", "r", "a", "y", "s", "c", "a", "l", "e">>
s_sepia == <<"s", "e", "p", "i", "a">>
s_blur == <<"b", "l", "u", "r">>
s_bright == <<"b", "r", "i", "g", "h", "t">>
s_contrast == <<"c", "o", "n", "t", "r", "a", "s", "t">>
s_dog == <<"d", "o", "g">>
s_sunglasses == <<"s", "u", "n", "g", "l", "a", "s", "s", "e", "s">>
s_flower == <<"f", "l", "o", "w", "e", "r">>
s_hat == <<"h", "a", "t">>
s_xy == <<"x", "y">>
s_top == <<"t", "o", "p">>
s_center == <<"c", "e", "n", "t", "e", "r">>
s_bottom == <<"b", "o", "t", "t", "o", "m">>
s_middle == <<"m", "i", "d", "d", "l", "e">>

-----------------------------------------------------------------------------
(* /api/generate-captions: the parsing of the model's reply                *)

BulletChars == {"-", "BULLET", " "}

\* line = line.strip("-BULLET ")
TrimLineLeadingOnly(line) == lstrip(line, BulletChars)
TrimLine(line) == strip(line, BulletChars)

\* line.strip("#")
HashtagEntryLeadingOnly(line) == lstrip(line, {"#"})
HashtagEntry(line) == strip(line, {"#"})

\* len(captions) < 3
HasCaptionSlotOffByOne(caps) == Len(caps) <= 3
HasCaptionSlot(caps) == Len(caps) < 3

\* description.strip()
FinalDescriptionRightOnly(d) == rstrip(d, Whitespace)
FinalDescription(d) == strip(d, Whitespace)

MaxLines == 5

ParseLines ==
    { <<>>,
      <<"a">>,
      <<"-", "a", " ", "-">>,
      <<"#", "t", "#">>,
      <<"\t", "b">>,
      <<"BULLET", " ">>,
      <<"-", "#", "u">> }

ExampleLines ==
    << <<"C","a","p","t","i","o","n"," ","o","n","e">>,
       <<"C","a","p","t","i","o","n"," ","t","w","o">>,
       <<"#","f","u","n","n","y">>,
       <<"#","m","e","m","e">>,
       <<"A"," ","s","h","o","r","t"," ","d","e","s","c","r","i","p","t","i","o","n"," ","h","e","r","e">> >>

ExampleText == join(ExampleLines, <<"\n">>)

LineSeqs == UNION {[1..n -> ParseLines] : n \in 0..MaxLines}

RawTexts == {join(ls, <<"\n">>) : ls \in LineSeqs} \cup {ExampleText}

\* what client.chat.completions.create hands back: a content, no content, or an exception
ModelOutcomes == RawTexts \cup {None, Raised}

GInit ==
    /\ gpc = "start"
    /\ ghasImage \in BOOLEAN
    /\ gmodel \in ModelOutcomes
    /\ ghasImage = FALSE => gmodel = None
    /\ gtext = None
    /\ parts = <<>>
    /\ gi = 1
    /\ captions = <<>>
    /\ hashtags = <<>>
    /\ description = <<>>
    /\ gresp = NoResponse

GIdle ==
    /\ gpc = "idle" /\ ghasImage = FALSE /\ gmodel = None /\ gtext = None
    /\ parts = <<>> /\ gi = 1 /\ captions = <<>> /\ hashtags = <<>>
    /\ description = <<>> /\ gresp = NoResponse

\* if "image" not in request.files: return json_error(...)
GenNoImage ==
    /\ gpc = "start"
    /\ ~ghasImage
    /\ gresp' = [code |-> 400, error |-> "No image provided"]
    /\ gpc' = "done"
    /\ UNCHANGED <<ghasImage, gmodel, gtext, parts, gi, captions, hashtags, description>>

\* the model call raises: except Exception -> 500
GenModelRaises ==
    /\ gpc = "start"
    /\ ghasImage
    /\ gmodel = Raised
    /\ gresp' = [code |-> 500, error |-> "exception"]
    /\ gpc' = "done"
    /\ UNCHANGED <<ghasImage, gmodel, gtext, parts, gi, captions, hashtags, description>>

\* text = resp.choices[0].message.content; if text: parts = text.split("\n")
GenModelCall ==
    /\ gpc = "start"
    /\ ghasImage
    /\ gmodel # Raised
    /\ gtext' = gmodel
    /\ captions' = <<>>
    /\ hashtags' = <<>>
    /\ description' = <<>>
    /\ gi' = 1
    /\ IF gmodel # None /\ gmodel # <<>>
       THEN parts' = split_on(gmodel, "\n") /\ gpc' = "loop"
       ELSE parts' = <<>> /\ gpc' = "return"
    /\ UNCHANGED <<ghasImage, gmodel, gresp>>

\* one iteration of: for line in parts
GenLine ==
    /\ gpc = "loop"
    /\ gi <= Len(parts)
    /\ LET line == TrimLine(parts[gi]) IN
         IF line = <<>>
         THEN UNCHANGED <<captions, hashtags, description>>
         ELSE IF startswith(line, "#")
         THEN /\ hashtags' = Append(hashtags, HashtagEntry(line))
              /\ UNCHANGED <<captions, description>>
         ELSE IF HasCaptionSlot(captions)
         THEN /\ captions' = Append(captions, line)
              /\ UNCHANGED <<hashtags, description>>
         ELSE /\ description' = description \o line \o <<" ">>
              /\ UNCHANGED <<captions, hashtags>>
    /\ gi' = gi + 1
    /\ UNCHANGED <<gpc, ghasImage, gmodel, gtext, parts, gresp>>

GenLoopEnd ==
    /\ gpc = "loop"
    /\ gi > Len(parts)
    /\ gpc' = "return"
    /\ UNCHANGED <<ghasImage, gmodel, gtext, parts, gi, captions, hashtags, description, gresp>>

\* return jsonify({captions, hashtags, description.strip()})
GenReturn ==
    /\ gpc = "return"
    /\ gresp' = [code |-> 200, captions |-> captions, hashtags |-> hashtags,
                 description |-> FinalDescription(description)]
    /\ gpc' = "done"
    /\ UNCHANGED <<ghasImage, gmodel, gtext, parts, gi, captions, hashtags, description>>

generate_captions ==
    GenNoImage \/ GenModelRaises \/ GenModelCall \/ GenLine \/ GenLoopEnd \/ GenReturn

-----------------------------------------------------------------------------
(* apply_filter                                                            *)
(* An image is its size, its mode and the history of the pixel operations  *)
(* applied to the decoded pixels; two images are pixel-identical when the  *)
(* three agree.                                                            *)

Builtins == {s_grayscale, s_sepia, s_blur, s_bright, s_contrast}

\* filter_name.lower().strip()
normalize(name) == strip(lower(name), Whitespace)

\* ImageOps.grayscale / colorize / GaussianBlur / Brightness / Contrast
apply_builtin(img, n) ==
    [size |-> img.size,
     mode |-> IF n \in {s_grayscale, s_sepia} THEN "RGB" ELSE img.mode,
     px   |-> Append(img.px, [op |-> n])]

\* os.path.exists(os.path.join("static", "filters", f"{filter_name}.png"))
asset_exists_unchecked(n, fs) == TRUE
asset_exists(n, fs) == n \in fs

\* int(scale * aspect), aspect = overlay.size[1] / overlay.size[0] in floating point:
\* the floor of the exact quotient, except that an inexact aspect may round an exactly
\* integral product to just below the integer
resized_heights(scale, osize) ==
    LET k == (scale * osize[2]) \div osize[1] IN
    IF (scale * osize[2]) % osize[1] = 0 /\ osize[2] % osize[1] # 0 /\ k > 0
    THEN {k, k - 1}
    ELSE {k}

\* Positioning based on filter
overlay_pos_dog_misplaced(n, W, H, osize) ==
    IF n = s_dog THEN <<W \div 5, H \div 20>>
    ELSE IF n = s_sunglasses THEN <<W \div 5, H \div 4>>
    ELSE IF n = s_flower THEN <<W \div 5, 0>>
    ELSE <<W \div 2 - osize[1] \div 2, H \div 2 - osize[2] \div 2>>
overlay_pos(n, W, H, osize) ==
    IF n = s_dog THEN <<W \div 5, H \div 25>>
    ELSE IF n = s_sunglasses THEN <<W \div 5, H \div 4>>
    ELSE IF n = s_flower THEN <<W \div 5, 0>>
    ELSE <<W \div 2 - osize[1] \div 2, H \div 2 - osize[2] \div 2>>

BlankImage == [size |-> <<0, 0>>, mode |-> "none", px |-> <<>>]
FilterRaised == [status |-> "raise", img |-> BlankImage, same |-> FALSE, overlay |-> <<>>]

\* img.convert("RGBA"); img.paste(overlay, pos, overlay); img.convert("RGB")
pasted(img, n, pos, osize) ==
    [status |-> "ok",
     img |-> [size |-> img.size, mode |-> "RGB",
              px |-> Append(img.px, [op |-> <<"p", "a", "s", "t", "e">>, asset |-> n,
                                     pos |-> pos, osize |-> osize])],
     same |-> FALSE,
     overlay |-> <<[name |-> n, pos |-> pos, size |-> osize]>>]

\* the outcomes of apply_filter(img, name) with the asset files fs, the opened asset
\* being of size asset.  A resize to an empty size raises or yields an empty overlay,
\* depending on the imaging library.
apply_filter(img, name, fs, asset) ==
    LET n == normalize(name)
        W == img.size[1]
        H == img.size[2]
        scale == W \div 2
    IN  IF n \in Builtins
        THEN {[status |-> "ok", img |-> apply_builtin(img, n), same |-> FALSE,
               overlay |-> <<>>]}
        ELSE IF asset_exists(n, fs)
        THEN IF n \notin fs
             THEN {FilterRaised}
             ELSE UNION { (IF scale = 0 \/ h = 0 THEN {FilterRaised} ELSE {}) \cup
                          {pasted(img, n, overlay_pos(n, W, H, <<scale, h>>), <<scale, h>>)}
                          : h \in resized_heights(scale, asset) }
        ELSE {[status |-> "ok", img |-> img, same |-> TRUE, overlay |-> <<>>]}

MaxDimK == 3
DimStep == 33

ImageSizes ==
    {<<DimStep * i, DimStep * j>> : i, j \in 1..MaxDimK} \cup {<<1000, 800>>, <<1, 1>>}

AssetSizes == {<<2, 1>>, <<3, 2>>, <<1, 3>>, <<400, 1>>}

AssetNames == {s_dog, s_sunglasses, s_flower, s_hat, <<>>}

BaseNames == Builtins \cup AssetNames \cup {s_xy}

\* the same name as a caller may spell it
Spellings(n) == {n, upper(n), <<" ">> \o n, n \o <<"\t", " ">>}

FilterNames == UNION {Spellings(n) : n \in BaseNames}

SourceImage(sz) == [size |-> sz, mode |-> "RGB", px |-> <<>>]

FInit ==
    /\ fpc = "call"
    /\ fimg \in {SourceImage(sz) : sz \in ImageSizes}
    /\ fname \in FilterNames
    /\ files \in SUBSET AssetNames
    /\ fasset \in AssetSizes
    /\ fout = [status |-> "none"]

FIdle ==
    /\ fpc = "idle" /\ fimg = BlankImage /\ fname = <<>> /\ files = {}
    /\ fasset = <<1, 1>> /\ fout = [status |-> "none"]

FilterBuiltin ==
    /\ fpc = "call"
    /\ normalize(fname) \in Builtins
    /\ fout' \in apply_filter(fimg, fname, files, fasset)
    /\ fpc' = "done"
    /\ UNCHANGED <<fimg, fname, files, fasset>>

FilterOverlay ==
    /\ fpc = "call"
    /\ normalize(fname) \notin Builtins
    /\ asset_exists(normalize(fname), files)
    /\ fout' \in apply_filter(fimg, fname, files, fasset)
    /\ fpc' = "done"
    /\ UNCHANGED <<fimg, fname, files, fasset>>

FilterPassThrough ==
    /\ fpc = "call"
    /\ normalize(fname) \notin Builtins
    /\ ~asset_exists(normalize(fname), files)
    /\ fout' \in apply_filter(fimg, fname, files, fasset)
    /\ fpc' = "done"
    /\ UNCHANGED <<fimg, fname, files, fasset>>

-----------------------------------------------------------------------------
(* draw_caption_on_image                                                   *)

Max(a, b) == IF a >= b THEN a ELSE b

\* Python's int() of a quotient by two: truncation towards zero
int_half(n) == IF n >= 0 THEN n \div 2 ELSE -((-n) \div 2)

\* max(24, int(W / 12))
base_size(W) == Max(24, W \div 12)

FontCandidates == <<"Impact.ttf", "impact.ttf", "Arial.ttf", "arial.ttf">>

\* the first candidate ImageFont.truetype can load, else ImageFont.load_default()
select_font(inst, size) ==
    IF \E i \in 1..Len(FontCandidates) : FontCandidates[i] \in inst
    THEN LET i == CHOOSE k \in 1..Len(FontCandidates) :
                     /\ FontCandidates[k] \in inst
                     /\ \A j \in 1..(k - 1) : FontCandidates[j] \notin inst
         IN [file |-> FontCandidates[i], size |-> size]
    ELSE [file |-> "default", size |-> 10]

\* the metrics of the loaded font: the advance of a glyph and the extent of "Ay".
\* The default font is a fixed-pitch bitmap font, the others scale with the size.
advance(f, c) ==
    IF f.file = "default" THEN 6
    ELSE IF f.file \in {"Impact.ttf", "impact.ttf"}
    THEN (IF c = " " THEN f.size \div 4 ELSE IF c = "M" THEN (3 * f.size) \div 4
          ELSE f.size \div 2)
    ELSE (IF c = " " THEN f.size \div 4 ELSE IF c = "M" THEN (5 * f.size) \div 6
          ELSE (2 * f.size) \div 3)

line_height(f) == IF f.file = "default" THEN 11 ELSE f.size

\* bbox = draw.textbbox((0, 0), s, font=font); tw = bbox[2] - bbox[0]
RECURSIVE text_width(_, _)
text_width(s, f) == IF s = <<>> THEN 0 ELSE advance(f, Head(s)) + text_width(Tail(s), f)

\* tw <= int(W * 0.9)
fits_full_width(tw, W) == tw <= W
fits(tw, W) == tw <= (9 * W) \div 10

\* if current: lines.append(current)
flush_dropped(ls, cur) == ls
flush(ls, cur) == IF cur # <<>> THEN Append(ls, cur) ELSE ls

RECURSIVE wrap_loop(_, _, _, _, _)
wrap_loop(ws, ls, cur, W, f) ==
    IF ws = <<>> THEN flush(ls, cur)
    ELSE LET w == Head(ws)
             trial == strip(cur \o <<" ">> \o w, Whitespace)
         IN  IF fits(text_width(trial, f), W)
             THEN wrap_loop(Tail(ws), ls, trial, W, f)
             ELSE wrap_loop(Tail(ws), IF cur # <<>> THEN Append(ls, cur) ELSE ls, w, W, f)

wrap_text(txt, W, f) == wrap_loop(split(txt), <<>>, <<>>, W, f)

\* total_h = len(lines) * line_height + (len(lines) - 1) * gap
total_height(n, f) == n * line_height(f) + (n - 1) * (line_height(f) \div 4)

\* the default of the position parameter
position_arg(p) == IF p = None THEN s_bottom ELSE p

\* if position == "top" ... elif position == "center" ... else ...
start_y_unknown_as_top(position, H, total_h) ==
    IF position = s_top THEN H \div 20
    ELSE IF position = s_center THEN int_half(H - total_h)
    ELSE IF position = s_bottom THEN H - total_h - H \div 20
    ELSE H \div 20
start_y(position, H, total_h) ==
    IF position = s_top THEN H \div 20
    ELSE IF position = s_center THEN int_half(H - total_h)
    ELSE H - total_h - H \div 20

MaxTextLen == 5
MaxCWK == 3
CWStep == 20
MaxCHK == 2
CHStep == 30

CaptionAlphabet == {"a", "m", " "}
CaptionTexts == UNION {[1..n -> CaptionAlphabet] : n \in 0..MaxTextLen}
CaptionWidths == {CWStep * k : k \in 1..MaxCWK} \cup {1000}
CaptionHeights == {CHStep * k : k \in 1..MaxCHK}
Positions == {None, s_top, s_center, s_bottom, upper(s_top), s_middle}
FontInstalls == {{}, {"Impact.ttf"}, {"arial.ttf"}}

CInit ==
    /\ cpc = "font"
    /\ cW \in CaptionWidths
    /\ cH \in CaptionHeights
    /\ ctext \in CaptionTexts
    /\ cpos \in Positions
    /\ installed \in FontInstalls
    /\ font = [file |-> "none", size |-> 0]
    /\ lines = <<>>
    /\ li = 1
    /\ ystart = 0
    /\ y = 0
    /\ drawn = <<>>
    /\ cout = NoResponse

CIdle ==
    /\ cpc = "idle" /\ cW = 0 /\ cH = 0 /\ ctext = <<>> /\ cpos = None
    /\ installed = {} /\ font = [file |-> "none", size |-> 0] /\ lines = <<>>
    /\ li = 1 /\ ystart = 0 /\ y = 0 /\ drawn = <<>> /\ cout = NoResponse

CaptionFont ==
    /\ cpc = "font"
    /\ font' = select_font(installed, base_size(cW))
    /\ cpc' = "wrap"
    /\ UNCHANGED <<cW, cH, ctext, cpos, installed, lines, li, ystart, y, drawn, cout>>

\* lines = wrap_text(text.upper())
CaptionWrap ==
    /\ cpc = "wrap"
    /\ lines' = wrap_text(upper(ctext), cW, font)
    /\ cpc' = "layout"
    /\ UNCHANGED <<cW, cH, ctext, cpos, installed, font, li, ystart, y, drawn, cout>>

CaptionLayout ==
    /\ cpc = "layout"
    /\ ystart' = start_y(position_arg(cpos), cH, total_height(Len(lines), font))
    /\ y' = ystart'
    /\ li' = 1
    /\ cpc' = "draw"
    /\ UNCHANGED <<cW, cH, ctext, cpos, installed, font, lines, drawn, cout>>

\* one iteration of: for line in lines
CaptionDrawLine ==
    /\ cpc = "draw"
    /\ li <= Len(lines)
    /\ drawn' = Append(drawn, [x |-> int_half(cW - text_width(lines[li], font)),
                               y |-> y, line |-> lines[li],
                               stroke |-> Max(2, base_size(cW) \div 12)])
    /\ y' = y + line_height(font) + line_height(font) \div 4
    /\ li' = li + 1
    /\ UNCHANGED <<cpc, cW, cH, ctext, cpos, installed, font, lines, ystart, cout>>

\* image.save(out, format="JPEG", quality=92)
CaptionSave ==
    /\ cpc = "draw"
    /\ li > Len(lines)
    /\ cout' = [code |-> 200, drawn |-> drawn]
    /\ cpc' = "done"
    /\ UNCHANGED <<cW, cH, ctext, cpos, installed, font, lines, li, ystart, y, drawn>>

-----------------------------------------------------------------------------
(* /api/finalize-meme                                                      *)

\* (request.form.get("text") or "").strip()
form_text_unstripped(t) == IF t = None THEN <<>> ELSE t
form_text(t) == strip(IF t = None THEN <<>> ELSE t, Whitespace)

\* (request.form.get("position") or "bottom").strip().lower()
form_position(p) == lower(strip(IF p = None \/ p = <<>> THEN s_bottom ELSE p, Whitespace))

\* (request.form.get("filter") or "").strip().lower()
form_filter(n) == lower(strip(IF n = None THEN <<>> ELSE n, Whitespace))

\* image.save(buf, format="JPEG"); Image.open(io.BytesIO(raw_filtered))
jpeg_round_trip(img) ==
    [size |-> img.size, mode |-> "RGB", px |-> Append(img.px, [op |-> <<"j", "p", "e", "g">>])]

FormTexts == {None, <<>>, <<" ">>, <<"\t", " ">>, <<"a">>, <<" ", "a", " ", "m", " ">>}
FormPositions == {None, <<>>, <<" ">> \o upper(s_top), s_center, s_middle, s_bottom}
FormFilters == {None, <<>>, upper(s_dog) \o <<" ">>, s_grayscale, s_xy}
FormImageSizes == {<<40, 30>>, <<1000, 800>>, <<1, 1>>}

Requests ==
    [hasImage : BOOLEAN, text : FormTexts, position : FormPositions, filter : FormFilters,
     decodable : BOOLEAN, size : FormImageSizes]

MInit ==
    /\ mpc = "start"
    /\ mreq \in Requests
    /\ mimg = BlankImage
    /\ mcalls = <<>>
    /\ mresp = NoResponse

MIdle ==
    /\ mpc = "idle"
    /\ mreq = [hasImage |-> FALSE, text |-> None, position |-> None, filter |-> None,
               decodable |-> FALSE, size |-> <<1, 1>>]
    /\ mimg = BlankImage /\ mcalls = <<>> /\ mresp = NoResponse

\* if "image" not in request.files: return json_error("No image provided", 400)
FinalizeNoImage ==
    /\ mpc = "start"
    /\ ~mreq.hasImage
    /\ mresp' = [code |-> 400, error |-> "No image provided"]
    /\ mpc' = "done"
    /\ UNCHANGED <<mreq, mimg, mcalls, files, fasset, installed>>

\* if not text: return json_error("Missing 'text' field.", 400)
FinalizeMissingText ==
    /\ mpc = "start"
    /\ mreq.hasImage
    /\ form_text(mreq.text) = <<>>
    /\ mresp' = [code |-> 400, error |-> "Missing 'text' field."]
    /\ mpc' = "done"
    /\ UNCHANGED <<mreq, mimg, mcalls, files, fasset, installed>>

\* image = Image.open(io.BytesIO(raw)).convert("RGB")
FinalizeDecode ==
    /\ mpc = "start"
    /\ mreq.hasImage
    /\ form_text(mreq.text) # <<>>
    /\ mcalls' = Append(mcalls, [fn |-> "Image.open", arg |-> <<>>])
    /\ IF mreq.decodable
       THEN /\ mimg' = SourceImage(mreq.size)
            /\ mpc' = "filter"
            /\ UNCHANGED mresp
       ELSE /\ mresp' = [code |-> 500, error |-> "exception"]
            /\ mpc' = "done"
            /\ UNCHANGED mimg
    /\ UNCHANGED <<mreq, files, fasset, installed>>

\* image = apply_filter(image, filter_name), then the JPEG round trip
FinalizeFilter ==
    /\ mpc = "filter"
    /\ mcalls' = Append(mcalls, [fn |-> "apply_filter", arg |-> form_filter(mreq.filter)])
    /\ \E r \in apply_filter(mimg, form_filter(mreq.filter), files, fasset) :
         IF r.status = "ok"
         THEN /\ mimg' = jpeg_round_trip(r.img)
              /\ mpc' = "render"
              /\ UNCHANGED mresp
         ELSE /\ mresp' = [code |-> 500, error |-> "exception"]
              /\ mpc' = "done"
              /\ UNCHANGED mimg
    /\ UNCHANGED <<mreq, files, fasset, installed>>

\* final_bytes = draw_caption_on_image(image, text, position=position)
FinalizeRender ==
    /\ mpc = "render"
    /\ LET text == form_text(mreq.text)
           f == select_font(installed, base_size(mimg.size[1]))
           ls == wrap_text(upper(text), mimg.size[1], f)
       IN  /\ mcalls' = Append(mcalls, [fn |-> "draw_caption_on_image", arg |-> text])
           /\ mresp' = [code |-> 200, lines |-> ls,
                        y |-> start_y(form_position(mreq.position), mimg.size[2],
                                      total_height(Len(ls), f))]
    /\ mpc' = "done"
    /\ UNCHANGED <<mreq, mimg, files, fasset, installed>>

-----------------------------------------------------------------------------
(* Specifications: one per entry point                                     *)

NextParse ==
    \/ GenNoImage /\ UNCHANGED <<fvars, cvars, mvars>>
    \/ GenModelRaises /\ UNCHANGED <<fvars, cvars, mvars>>
    \/ GenModelCall /\ UNCHANGED <<fvars, cvars, mvars>>
    \/ GenLine /\ UNCHANGED <<fvars, cvars, mvars>>
    \/ GenLoopEnd /\ UNCHANGED <<fvars, cvars, mvars>>
    \/ GenReturn /\ UNCHANGED <<fvars, cvars, mvars>>

InitParse == GInit /\ FIdle /\ CIdle /\ MIdle

SpecParse == InitParse /\ [][NextParse]_vars

NextFilter ==
    \/ FilterBuiltin /\ UNCHANGED <<gvars, cvars, mvars>>
    \/ FilterOverlay /\ UNCHANGED <<gvars, cvars, mvars>>
    \/ FilterPassThrough /\ UNCHANGED <<gvars, cvars, mvars>>

InitFilter == GIdle /\ FInit /\ CIdle /\ MIdle

SpecFilter == InitFilter /\ [][NextFilter]_vars

NextCaption ==
    \/ CaptionFont /\ UNCHANGED <<gvars, fvars, mvars>>
    \/ CaptionWrap /\ UNCHANGED <<gvars, fvars, mvars>>
    \/ CaptionLayout /\ UNCHANGED <<gvars, fvars, mvars>>
    \/ CaptionDrawLine /\ UNCHANGED <<gvars, fvars, mvars>>
    \/ CaptionSave /\ UNCHANGED <<gvars, fvars, mvars>>

InitCaption == GIdle /\ FIdle /\ CInit /\ MIdle

SpecCaption == InitCaption /\ [][NextCaption]_vars

FinalizeEnvInit ==
    /\ GIdle
    /\ fpc = "idle" /\ fimg = BlankImage /\ fname = <<>> /\ fout = [status |-> "none"]
    /\ files \in {{}, {s_dog}}
    /\ fasset \in {<<2, 1>>, <<400, 1>>}
    /\ cpc = "idle" /\ cW = 0 /\ cH = 0 /\ ctext = <<>> /\ cpos = None
    /\ installed \in FontInstalls
    /\ font = [file |-> "none", size |-> 0] /\ lines = <<>>
    /\ li = 1 /\ ystart = 0 /\ y = 0 /\ drawn = <<>> /\ cout = NoResponse

NextFinalize ==
    \/ FinalizeNoImage /\ UNCHANGED <<gvars, fpc, fimg, fname, fout, cpc, cW, cH, ctext, cpos, font, lines, li, ystart, y, drawn, cout>>
    \/ FinalizeMissingText /\ UNCHANGED <<gvars, fpc, fimg, fname, fout, cpc, cW, cH, ctext, cpos, font, lines, li, ystart, y, drawn, cout>>
    \/ FinalizeDecode /\ UNCHANGED <<gvars, fpc, fimg, fname, fout, cpc, cW, cH, ctext, cpos, font, lines, li, ystart, y, drawn, cout>>
    \/ FinalizeFilter /\ UNCHANGED <<gvars, fpc, fimg, fname, fout, cpc, cW, cH, ctext, cpos, font, lines, li, ystart, y, drawn, cout>>
    \/ FinalizeRender /\ UNCHANGED <<gvars, fpc, fimg, fname, fout, cpc, cW, cH, ctext, cpos, font, lines, li, ystart, y, drawn, cout>>

InitFinalize == FinalizeEnvInit /\ MInit

SpecFinalize == InitFinalize /\ [][NextFinalize]_vars

-----------------------------------------------------------------------------
(* Properties                                                              *)

Min(a, b) == IF a <= b THEN a ELSE b
Last(q) == q[Len(q)]
AllIn(q, cs) == \A i \in 1..Len(q) : q[i] \in cs

\* e is q without a leading and a trailing run of characters of cs, both runs maximal
IsTrimOf(e, q, cs) ==
    /\ \E i \in 0..Len(q) : \E j \in 0..(Len(q) - i) :
          /\ AllIn(SubSeq(q, 1, i), cs)
          /\ AllIn(SubSeq(q, Len(q) - j + 1, Len(q)), cs)
          /\ e = SubSeq(q, i + 1, Len(q) - j)
    /\ e # <<>> => (Head(e) \notin cs /\ Last(e) \notin cs)

\* e is q without its maximal leading run of characters of cs
IsLeadingTrimOf(e, q, cs) ==
    /\ \E i \in 0..Len(q) : AllIn(SubSeq(q, 1, i), cs) /\ e = SubSeq(q, i + 1, Len(q))
    /\ e # <<>> => Head(e) \notin cs

\* the first character of q that is not of cs is c
FirstKeptIs(q, cs, c) ==
    \E i \in 1..Len(q) : q[i] = c /\ c \notin cs /\ AllIn(SubSeq(q, 1, i - 1), cs)

IsHashtagLine(q) == FirstKeptIs(q, BulletChars, "#")
IsPlainLine(q) == ~AllIn(q, BulletChars) /\ ~IsHashtagLine(q)

\* C1: for every image and every filter name that, lower-cased and trimmed, is no
\* built-in and has no asset file, apply_filter returns the very input image and
\* does not raise.
C1_Unsupported ==
    LET n == lower(strip(fname, Whitespace)) IN n \notin Builtins /\ n \notin files
C1_PassThrough ==
    (fpc = "done" /\ C1_Unsupported) =>
        (fout.status = "ok" /\ fout.img = fimg /\ fout.same /\ fout.overlay = <<>>)
C1_Witness ==
    /\ fpc = "done" /\ fname = upper(s_dog) /\ files = {s_hat, <<>>}
    /\ fout.status = "ok" /\ fout.img = fimg

\* C6: an overlay is pasted at (floor(W/5), floor(H/25)) for dog, (floor(W/5), floor(H/4))
\* for sunglasses, (floor(W/5), 0) for flower and, for any other asset, at the position
\* that puts the centre of the resized overlay on the centre of the image (to the
\* pixel); dog on 1000 x 800 is pasted at (200, 32).
C6_Floor(v, n, d) == d * v <= n /\ n < d * (v + 1)
C6_Anchor ==
    (fpc = "done" /\ fout.overlay # <<>>) =>
        LET o == fout.overlay[1]
            W == fimg.size[1]
            H == fimg.size[2]
        IN  /\ o.name = s_dog => C6_Floor(o.pos[1], W, 5) /\ C6_Floor(o.pos[2], H, 25)
            /\ o.name = s_sunglasses => C6_Floor(o.pos[1], W, 5) /\ C6_Floor(o.pos[2], H, 4)
            /\ o.name = s_flower => C6_Floor(o.pos[1], W, 5) /\ o.pos[2] = 0
            /\ o.name \notin {s_dog, s_sunglasses, s_flower} =>
                  /\ o.pos = <<W \div 2 - o.size[1] \div 2, H \div 2 - o.size[2] \div 2>>
                  /\ 2 * o.pos[1] + o.size[1] - W \in -1..1
                  /\ 2 * o.pos[2] + o.size[2] - H \in -1..1
            /\ (o.name = s_dog /\ fimg.size = <<1000, 800>>) => o.pos = <<200, 32>>
C6_Witness ==
    /\ fpc = "done" /\ fout.status = "ok" /\ fout.overlay # <<>>
    /\ fout.overlay[1].name = s_dog /\ fimg.size = <<1000, 800>>
    /\ fout.overlay[1].pos = <<200, 32>>

\* C2: at every step of the parsing loop and in the response, captions holds at most 3
\* entries: as many as there were plain (non-empty, non-hashtag) lines so far, capped
\* at 3, so that a hashtag line never takes a slot.
C2_PlainSoFar == Cardinality({i \in 1..Min(gi - 1, Len(parts)) : IsPlainLine(parts[i])})
C2_AtMostThree ==
    /\ Len(captions) <= 3
    /\ Len(captions) = Min(3, C2_PlainSoFar)
    /\ gresp.code = 200 => Len(gresp.captions) <= 3
C2_Witness ==
    /\ gpc = "done" /\ gresp.code = 200 /\ Len(gresp.captions) = 3
    /\ C2_PlainSoFar > 3 /\ Len(hashtags) >= 1 /\ IsHashtagLine(parts[1])

\* C3 (as stated): captions = the first up to 3 plain lines, hashtags = the hashtag
\* lines, description = the remaining plain lines joined by single spaces without
\* trailing whitespace; the empty text gives three empty fields, the five-line example
\* 2 captions, 2 hashtags and the last line.
C3_NonEmpty(q) == q # <<>>
C3_IsTag(q) == startswith(q, "#")
C3_IsPlain(q) == ~startswith(q, "#")
C3_Lines ==
    IF gmodel = None \/ gmodel = <<>> THEN <<>>
    ELSE LET raw == split_on(gmodel, "\n")
         IN  SelectSeq([i \in 1..Len(raw) |-> TrimLine(raw[i])], C3_NonEmpty)
C3_Tags == LET t == SelectSeq(C3_Lines, C3_IsTag) IN [i \in 1..Len(t) |-> HashtagEntry(t[i])]
C3_Plain == SelectSeq(C3_Lines, C3_IsPlain)
C3_Captions == SubSeq(C3_Plain, 1, Min(3, Len(C3_Plain)))
C3_Rest == SubSeq(C3_Plain, 4, Len(C3_Plain))
C3_Tag1 == <<"f", "u", "n", "n", "y">>
C3_Tag2 == <<"m", "e", "m", "e">>
C3_Original ==
    gresp.code = 200 =>
        /\ gresp.captions = C3_Captions
        /\ gresp.hashtags = C3_Tags
        /\ gresp.description = rstrip(join(C3_Rest, <<" ">>), Whitespace)
        /\ gmodel \in {None, <<>>} =>
              gresp.captions = <<>> /\ gresp.hashtags = <<>> /\ gresp.description = <<>>
        /\ gmodel = ExampleText =>
              /\ gresp.captions = <<ExampleLines[1], ExampleLines[2]>>
              /\ gresp.hashtags = <<C3_Tag1, C3_Tag2>>
              /\ gresp.description = ExampleLines[5]

\* C3 (amended): captions, hashtags and the remaining lines as above, but the
\* description is the remaining plain lines joined by single spaces with the whitespace
\* at both ends removed; the empty text gives three empty fields, and the five-line
\* example gives 3 captions (its two first lines and its last line, the third plain
\* line), 2 hashtags and an empty description.
C3_Amended ==
    gresp.code = 200 =>
        /\ gresp.captions = C3_Captions
        /\ gresp.hashtags = C3_Tags
        /\ IsTrimOf(gresp.description, join(C3_Rest, <<" ">>), Whitespace)
        /\ gmodel \in {None, <<>>} =>
              gresp.captions = <<>> /\ gresp.hashtags = <<>> /\ gresp.description = <<>>
        /\ gmodel = ExampleText =>
              /\ gresp.captions = <<ExampleLines[1], ExampleLines[2], ExampleLines[5]>>
              /\ gresp.hashtags = <<C3_Tag1, C3_Tag2>>
              /\ gresp.description = <<>>
C3_Witness ==
    /\ gpc = "done" /\ gresp.code = 200 /\ Len(gresp.captions) = 3
    /\ Len(C3_Rest) = 2 /\ Head(C3_Rest[1]) = "\t"
    /\ gresp.description = <<"b", " ", "a">>

\* a step of the loop that handles the line parts[gi]
LineStep == gpc = "loop" /\ gi <= Len(parts) /\ gi' = gi + 1

\* C9 (as stated): the entry appended for a hashtag line is the trimmed line without
\* its leading run of '#', a '#' at its end left in place.
C9_Original ==
    [][(LineStep /\ IsHashtagLine(parts[gi])) =>
          /\ Len(hashtags') = Len(hashtags) + 1
          /\ IsLeadingTrimOf(Last(hashtags'), TrimLine(parts[gi]), {"#"})]_vars

\* C9 (amended): the entry appended for a hashtag line is the trimmed line without its
\* leading run and without its trailing run of '#'.
C9_Amended ==
    [][(LineStep /\ IsHashtagLine(parts[gi])) =>
          /\ hashtags' = Append(hashtags, Last(hashtags'))
          /\ IsTrimOf(Last(hashtags'), TrimLine(parts[gi]), {"#"})]_vars
C9_Witness ==
    /\ gpc = "loop" /\ gi > 1 /\ parts[gi - 1] = <<"#", "t", "#">>
    /\ hashtags # <<>> /\ Last(hashtags) = <<"t">>

\* C10 (as stated): only the leading run of '-', bullet and space is trimmed: a caption
\* entry is the line without that run, and a line is skipped exactly when nothing
\* remains.
C10_Original ==
    [][LineStep =>
          /\ AllIn(parts[gi], BulletChars) <=> UNCHANGED <<captions, hashtags, description>>
          /\ captions' # captions =>
                /\ captions' = Append(captions, Last(captions'))
                /\ IsLeadingTrimOf(Last(captions'), parts[gi], BulletChars)]_vars

\* C10 (amended): the leading and the trailing run of '-', bullet and space are both
\* trimmed: a caption entry is the line without the two runs, and a line is skipped
\* exactly when nothing remains.
C10_Amended ==
    [][LineStep =>
          /\ AllIn(parts[gi], BulletChars) <=> UNCHANGED <<captions, hashtags, description>>
          /\ captions' # captions =>
                /\ captions' = Append(captions, Last(captions'))
                /\ IsTrimOf(Last(captions'), parts[gi], BulletChars)]_vars
C10_Witness ==
    /\ gpc = "loop" /\ gi > 1 /\ parts[gi - 1] = <<"-", "a", " ", "-">>
    /\ captions # <<>> /\ Last(captions) = <<"a">>

\* C4: wrapping the wrapped lines joined by single spaces gives the same lines.
C4_Idempotent ==
    cpc \in {"layout", "draw", "done"} =>
        wrap_text(join(lines, <<" ">>), cW, font) = lines
C4_Witness ==
    /\ cpc = "done" /\ Len(lines) >= 2
    /\ \E k \in 1..Len(lines) : Len(split(lines[k])) = 2

\* C8: every wrapped line is at most 90% of the image width wide or is a single word;
\* a word wider than that stands alone; the first word of a line other than the first
\* did not fit at the end of the line before; and the lines hold the words of the
\* text in order.
C8_TooWide(s) == 10 * text_width(s, font) > 9 * cW
C8_Greedy ==
    cpc \in {"layout", "draw", "done"} =>
        /\ \A k \in 1..Len(lines) :
              LET ws == split(lines[k]) IN
              /\ Len(ws) >= 1
              /\ ~C8_TooWide(lines[k]) \/ Len(ws) = 1
              /\ (\E i \in 1..Len(ws) : C8_TooWide(ws[i])) => Len(ws) = 1
              /\ k > 1 => C8_TooWide(lines[k - 1] \o <<" ">> \o ws[1])
        /\ split(join(lines, <<" ">>)) = split(upper(ctext))
C8_Witness ==
    /\ cpc = "done" /\ Len(lines) = 3
    /\ C8_TooWide(lines[1]) /\ ~C8_TooWide(lines[2]) /\ C8_TooWide(lines[3])

\* C7: with position 'bottom', with no position and with any position other than 'top'
\* and 'center', the text block starts at H - blockHeight - floor(H / 20).
C7_BlockHeight ==
    Len(lines) * line_height(font) + (Len(lines) - 1) * (line_height(font) \div 4)
C7_BottomFallback ==
    (cpc \in {"draw", "done"} /\ cpos \notin {s_top, s_center}) =>
        /\ C6_Floor(cH - C7_BlockHeight - ystart, cH, 20)
        /\ ystart = start_y(s_bottom, cH, C7_BlockHeight)
        /\ drawn # <<>> => drawn[1].y = ystart
C7_Witness ==
    /\ cpc = "done" /\ cpos = s_middle /\ Len(lines) = 2 /\ cH = 30
    /\ ystart = 30 - C7_BlockHeight - 1

\* C5: a finalize-meme request whose text is missing or blank is answered 400 without
\* any image being decoded, filtered or rendered, and draw_caption_on_image is never
\* called with an empty or blank text.
C5_Blank(t) == t = None \/ AllIn(t, Whitespace)
C5_RejectedFirst ==
    /\ \A i \in 1..Len(mcalls) :
          mcalls[i].fn = "draw_caption_on_image" => ~AllIn(mcalls[i].arg, Whitespace)
    /\ C5_Blank(mreq.text) =>
          /\ mcalls = <<>>
          /\ mpc = "done" => mresp.code = 400
C5_Witness ==
    /\ mpc = "done" /\ mreq.hasImage /\ mreq.decodable /\ mreq.text = <<"\t", " ">>
    /\ mresp.code = 400 /\ mcalls = <<>>

====
